---------------------------- MODULE Spec2Model ----------------------------
(***************************************************************************)
(* Model of UEx-CiteHub's server core: the resumable crawl Task            *)
(* (server/crawler/task.py), the scheduling Heap (server/utils.py), the    *)
(* periodic Merger and its similarity heuristic (server/merger.py).        *)
(*                                                                         *)
(* Time is counted in whole seconds.  Similarity values and the threshold  *)
(* are counted in tenths (1.0 is 10, 0.9 is 9, 0.0 is 0).                  *)
(***************************************************************************)
EXTENDS Integers, Sequences, FiniteSets, TLC

VARIABLES
    \* ---- Task (server/crawler/task.py) ----
    now,        \* asyncio.get_event_loop().time()
    wall,       \* time.time()
    phase,      \* "constructed" | "running" | "crashed"
    stage,      \* Task._stage
    due,        \* Task._due
    error,      \* Task._error
    storage,    \* Task._storage contents
    task_file,  \* task.json
    last,       \* outcome of the last Task operation (observation)
    fails,      \* number of consecutive failing steps so far (observation)
    at_save,    \* the Task as it was when task.json was last written by save()
    applied,    \* the Step the last step() applied, if step() was the last
                \* Task operation and it succeeded (observation)
    \* ---- Heap of Tasks (server/utils.py) ----
    heap,       \* Heap._heap
    popped,     \* the Task the last pop() returned (observation)
    prev,       \* the Task the pop() before it returned (observation)
    hop,        \* the last Heap operation (observation)
    \* ---- similarity (server/merger.py) ----
    sim_a,      \* first publication given to similarity()
    sim_b,      \* second publication given to similarity()
    sim_out,    \* the value similarity() returned, in tenths (-1: not called)
    \* ---- Merger (server/merger.py) ----
    force_check,   \* Merger._force_check is set
    mpc,           \* where the _periodic_merge task is suspended
    waited,        \* seconds spent in the current wait_for
    inner_ran,     \* the task wait_for made of event.wait() has had its first run
    usernames,     \* _merge: the list get_usernames() returned
    ui,            \* _merge: index of the username being merged
    pi,            \* _merge_user: index of the current source pair
    pubs_a,        \* _merge_user: pubs_a
    pubs_b,        \* _merge_user: pubs_b
    k,             \* _merge_user: publication pairs compared for this source pair
    result,        \* _merge_user: result
    db_pubs,       \* the database: publications per <<username, source>>
    merges,        \* the database: merge records per username
    mlast,         \* the last Merger event (observation)
    trues,         \* force_merge() calls that returned true while the loop
                   \* was running and since the last start of a sweep,
                   \* counted up to 2 (observation)
    saves,         \* save_merges calls per username in this sweep (observation)
    old_merges,    \* merges when this sweep started (observation)
    seen,          \* the publication lists read in this _merge_user (observation)
    compared,      \* comparisons made in this _merge_user (observation)
    dirty,         \* db_pubs changed during this _merge_user (observation)
    pairs_done,    \* ids of the publication pairs compared so far for the
                   \* current source pair, in order (observation)
    last_save,     \* what save_merges was called after, if it was the last
                   \* Merger event (observation)
    apc,           \* where __aexit__ is: "none" | "awaiting" | "returned"
    must_cancel,   \* a CancelledError is thrown into the task when it resumes
    \* ---- save_sources under utils.locked (server/utils.py, server/rest.py) ----
    lock_locked,   \* Lock._locked of the lock of utils.locked(save_sources)
    lock_waiters,  \* Lock._waiters: the requests waiting in acquire(), in order
    lock_woken,    \* the waiters whose future release() has completed
    rpc,           \* where each request to save_sources is
    source_fields  \* the source fields, as the last update_source_fields left them

taskVars == <<now, wall, phase, stage, due, error, storage, task_file, last,
              fails, at_save, applied>>

heapVars == <<heap, popped, prev, hop>>

simVars == <<sim_a, sim_b, sim_out>>

loopVars == <<usernames, ui, pi, pubs_a, pubs_b, k, result>>

sweepObs == <<saves, old_merges, seen, compared, dirty, pairs_done>>

exitVars == <<apc, must_cancel>>

mergerVars == <<force_check, mpc, waited, inner_ran, loopVars, db_pubs, merges, mlast,
                trues, sweepObs, last_save, exitVars>>

lockVars == <<lock_locked, lock_waiters, lock_woken, rpc, source_fields>>

vars == <<taskVars, heapVars, simVars, mergerVars, lockVars>>

\* what an operation of one component leaves alone in the others
TaskFrame == UNCHANGED <<heapVars, simVars, mergerVars, lockVars>>
HeapFrame == UNCHANGED <<taskVars, simVars, mergerVars, lockVars>>
SimFrame == UNCHANGED <<taskVars, heapVars, mergerVars, lockVars>>
MergerFrame == UNCHANGED <<taskVars, heapVars, simVars, lockVars>>
LockFrame == UNCHANGED <<taskVars, heapVars, simVars, mergerVars>>

Min(a, b) == IF a < b THEN a ELSE b

----------------------------------------------------------------------------
(* Bounds of the model *)

\* the loop clock runs from 0 to MaxNow
MaxNow == 2
\* difference between the wall clock and the loop clock at start
WallOffset == 1000
\* a Task takes at most MaxFails failing steps in a row
MaxFails == 7
\* largest cursor value carried by a Stage
MaxOffset == 1
\* number of Tasks the scheduling heap can hold
MaxTasks == 3
\* longest publication title given to similarity(), in characters
MaxLen == 3
\* publications a source's steps can return, when Storage is checked
MaxStorePubs == 2
\* publications in the database, over all usernames and sources, when the
\* sweeps are checked
MaxPubs == 3
\* concurrent requests to save_sources
MaxRequests == 3
\* the same, when the loop and force_merge() are checked
MaxLoopPubs == 2

\* publications in the database while sweeps are interleaved with crawls
MaxYieldPubs == 4
\* the timer of wait_for advances in steps of AUTO_DELAY / TicksPerPeriod
TicksPerPeriod == 2

----------------------------------------------------------------------------
(* Task: constants and Stage *)

ERROR_DELAYS == <<1, 10, 60, 10 * 60, 60 * 60, 24 * 60 * 60>>

\* DELAY_JITTER_PERCENT = 0.05, as the divisor of the delay
JitterDivisor == 20

EmptyData == [key \in {} |-> 0]

\* Task is abstract: Task.Stage is None and initial_stage() is not
\* implemented until a source's subclass declares them.  The Stage of the
\* source modelled here has two cases, INDEX -> names of the case's fields;
\* case 0 is the case of its initial_stage().
StageFields == (0 :> {}) @@ (1 :> {"offset"})

StageCases == DOMAIN StageFields

Stages ==
    UNION {{[INDEX |-> i, data |-> d] : d \in [StageFields[i] -> 0..MaxOffset]}
           : i \in StageCases}

initial_stage == [INDEX |-> 0, data |-> EmptyData]

\* Step.stage is None
NoStage == [INDEX |-> -1, data |-> EmptyData]

asdict(s) == s.data

NoFile == [exists |-> FALSE, data |-> EmptyData]

\* Mutant: the counter is incremented before the ladder is indexed.
ErrorDelayAfterIncrement(e) == ERROR_DELAYS[Min(e + 1, Len(ERROR_DELAYS) - 1) + 1]

\* delay = ERROR_DELAYS[min(self._error, len(ERROR_DELAYS) - 1)]
\* (sequences are indexed from 1)
ErrorDelay(e) == ERROR_DELAYS[Min(e, Len(ERROR_DELAYS) - 1) + 1]


----------------------------------------------------------------------------
(* Storage, as Task.step() uses it.  A stored publication is kept under its
   id with the cit_paths it was saved with (cit_none: cit_paths is None). *)

EmptyStorage == [authors |-> {}, user_pub_ids |-> {}, pubs |-> EmptyData]

\* A publication as a step function produces it: cit_paths is None.
FreshPub(id) == [id |-> id, cit_none |-> TRUE, cit_paths |-> {}]

unique_path_name(pub) == <<"pub", pub.id>>

save_pub(pubs, pub) ==
    [key \in DOMAIN pubs \cup {pub.id} |->
        IF key = pub.id
        THEN [id |-> pub.id, cit_none |-> pub.cit_none, cit_paths |-> pub.cit_paths]
        ELSE pubs[key]]

\* load_pub of a publication that is not stored raises.
load_pub(pubs, id) == pubs[id]

RECURSIVE SaveAll(_, _)
SaveAll(pubs, ids) ==
    IF ids = {} THEN pubs
    ELSE LET id == CHOOSE x \in ids : TRUE
         IN  SaveAll(save_pub(pubs, FreshPub(id)), ids \ {id})

\* One iteration of `for cites_pub_id, citations in step.citations.items()`.
ApplyCitation(pubs, cites_pub_id, citations) ==
    LET pub       == load_pub(pubs, cites_pub_id)
        old       == IF pub.cit_none THEN {} ELSE pub.cit_paths
        cit_paths == old \cup {unique_path_name(FreshPub(c)) : c \in citations}
        saved     == SaveAll(pubs, citations)
    IN  save_pub(saved, [id |-> cites_pub_id, cit_none |-> FALSE,
                         cit_paths |-> cit_paths])

\* The loop of lines 144-157: it ends at the first entry whose load_pub
\* raises, with the entries before it applied.
RECURSIVE ApplyCitations(_, _)
ApplyCitations(pubs, items) ==
    IF items = <<>> THEN pubs
    ELSE IF Head(items)[1] \notin DOMAIN pubs THEN pubs
    ELSE ApplyCitations(ApplyCitation(pubs, Head(items)[1], Head(items)[2]),
                        Tail(items))

\* every load_pub of the loop finds its publication
RECURSIVE LoadsSucceed(_, _)
LoadsSucceed(pubs, items) ==
    IF items = <<>> THEN TRUE
    ELSE /\ Head(items)[1] \in DOMAIN pubs
         /\ LoadsSucceed(ApplyCitation(pubs, Head(items)[1], Head(items)[2]),
                         Tail(items))

\* The apply phase of a successful step (task.py lines 127-157), as far as it
\* gets: a load_pub that raises ends it with what was written before.
ApplyStep(st, step) ==
    LET user_pub_ids == st.user_pub_ids \cup step.self_publications
        with_self    == SaveAll(st.pubs, step.self_publications)
    IN  [authors      |-> st.authors \cup step.authors,
         user_pub_ids |-> user_pub_ids,
         pubs         |-> ApplyCitations(with_self, step.citations)]

\* Mutant: the Stage of the result is taken as it is, None included.
NextStageUnchecked(step) == step.stage

\* self._stage = self.initial_stage() if step.stage is None else step.stage
NextStage(step) == IF step.stage = NoStage THEN initial_stage ELSE step.stage

\* Mutant: the jitter range is a tenth of the delay.
JitterRangeTenth(delay) == delay \div 10

\* jitter_range = step.delay * DELAY_JITTER_PERCENT, in whole seconds
JitterRange(delay) == delay \div JitterDivisor

\* The values a step function can return for publications 1..P: at most one
\* citation entry, for a publication that is stored or not.
StepItems(P) ==
    {<<>>} \cup {<<<<c, cs>>>> : c \in 1..P, cs \in SUBSET (1..P)}

StepDelays == {0, 2 * JitterDivisor}

StepResults(P) ==
    [stage : Stages \cup {NoStage},
     delay : StepDelays,
     authors : SUBSET (1..P),
     self_publications : SUBSET (1..P),
     citations : StepItems(P)]

\* The Steps of a source that returns publications: it asks to be stepped
\* again at once, ends its cycle or moves to its second Stage case, and knows
\* one author.
StoreSteps(P) ==
    {step \in StepResults(P) :
        /\ step.delay = 0
        /\ step.stage \in {NoStage, [INDEX |-> 1, data |-> [offset |-> 0]]}
        /\ step.authors \subseteq {1}}

\* no Step was applied by the last Task operation
NoStep == [stage |-> NoStage, delay |-> -1, authors |-> {},
           self_publications |-> {}, citations |-> <<>>]

\* Each cited publication is stored when line 145 loads it: the self
\* publications have been saved by then, and so have the citing publications
\* of the entries before it.
CitedStored(st, step) ==
    LoadsSucceed(SaveAll(st.pubs, step.self_publications), step.citations)

----------------------------------------------------------------------------
(* Task: operations *)

\* Task.__init__ in a new process: a fresh Task, a new event loop clock.
Restart ==
    /\ TaskFrame
    /\ phase \in {"running", "crashed"}
    /\ \E t \in {0, now} : now' = t
    /\ phase' = "constructed"
    /\ stage' = initial_stage
    /\ due' = 0
    /\ error' = 0
    /\ fails' = 0
    /\ last' = [op |-> "init", outcome |-> "ok", delay |-> 0, at |-> now]
    /\ applied' = NoStep
    /\ UNCHANGED <<wall, storage, task_file, at_save>>

\* What Task.load() finds in task.json once "due" and "_index" are popped.
FileFields(data) == [key \in DOMAIN data \ {"due", "_index"} |-> data[key]]

\* The declared cases whose INDEX is the persisted one.
MatchingCases(stage_index) == {i \in StageCases : i = stage_index}

\* Field(**data) raises TypeError when the keywords are not the case's fields.
LoadRaises(data) ==
    \E i \in MatchingCases(data["_index"]) :
        DOMAIN FileFields(data) # StageFields[i]

LoadedStage(data) ==
    IF MatchingCases(data["_index"]) = {} THEN stage
    ELSE [INDEX |-> data["_index"], data |-> FileFields(data)]

Load ==
    /\ TaskFrame
    /\ phase = "constructed"
    /\ IF ~task_file.exists
       THEN /\ phase' = "running"
            /\ last' = [op |-> "load", outcome |-> "nofile", delay |-> 0, at |-> now]
            /\ UNCHANGED <<stage, due>>
       ELSE LET data  == task_file.data
                delta == data["due"] - wall
            IN  /\ due' = now + delta
                /\ IF LoadRaises(data)
                   THEN /\ phase' = "crashed"
                        /\ last' = [op |-> "load", outcome |-> "error", delay |-> 0, at |-> now]
                        /\ UNCHANGED stage
                   ELSE /\ phase' = "running"
                        /\ stage' = LoadedStage(data)
                        /\ last' = [op |-> "load", outcome |-> "ok", delay |-> 0, at |-> now]
    /\ applied' = NoStep
    /\ UNCHANGED <<now, wall, error, storage, task_file, fails, at_save>>

\* Mutant: the loop-clock due is written as it is, not as a wall-clock instant.
SavedDataLoopClock ==
    asdict(stage) @@ ("_index" :> stage.INDEX) @@ ("due" :> due)

SavedData ==
    asdict(stage) @@ ("_index" :> stage.INDEX) @@ ("due" :> wall + (due - now))

Save ==
    /\ TaskFrame
    /\ phase = "running"
    /\ task_file' = [exists |-> TRUE, data |-> SavedData]
    /\ at_save' = [saved |-> TRUE, stage |-> stage, due |-> wall + (due - now),
                   error |-> error]
    /\ last' = [op |-> "save", outcome |-> "ok", delay |-> 0, at |-> now]
    /\ applied' = NoStep
    /\ UNCHANGED <<now, wall, phase, stage, due, error, storage, fails>>

\* Mutant: a failing step also restarts the cycle from the initial Stage.
StepRaisesRestartsCycle ==
    /\ TaskFrame
    /\ phase = "running"
    /\ fails < MaxFails
    /\ LET delay == ErrorDelay(error)
       IN  /\ error' = error + 1
           /\ due' = now + delay
           /\ last' = [op |-> "step", outcome |-> "raised", delay |-> delay,
                        at |-> now]
    /\ fails' = fails + 1
    /\ applied' = NoStep
    /\ stage' = initial_stage
    /\ UNCHANGED <<now, wall, phase, storage, task_file, at_save>>

\* step(): the source's step function raises.
StepRaises ==
    /\ TaskFrame
    /\ phase = "running"
    /\ fails < MaxFails
    /\ LET delay == ErrorDelay(error)
       IN  /\ error' = error + 1
           /\ due' = now + delay
           /\ last' = [op |-> "step", outcome |-> "raised", delay |-> delay,
                        at |-> now]
    /\ fails' = fails + 1
    /\ applied' = NoStep
    /\ UNCHANGED <<now, wall, phase, stage, storage, task_file, at_save>>

\* Mutant: a value that is not a Step is handled as a failure of the step.
StepInvalidBacksOff ==
    /\ TaskFrame
    /\ phase = "running"
    /\ error' = error + 1
    /\ due' = now + ErrorDelay(error)
    /\ fails' = 0
    /\ last' = [op |-> "step", outcome |-> "TypeError", delay |-> 0, at |-> now]
    /\ applied' = NoStep
    /\ UNCHANGED <<now, wall, phase, stage, storage, task_file, at_save>>

\* step(): the source's step function returns something that is not a Step.
StepInvalid ==
    /\ TaskFrame
    /\ phase = "running"
    /\ error' = 0
    /\ fails' = 0
    /\ last' = [op |-> "step", outcome |-> "TypeError", delay |-> 0, at |-> now]
    /\ applied' = NoStep
    /\ UNCHANGED <<now, wall, phase, stage, due, storage, task_file, at_save>>

\* step(): the source's step function returns the Step `step`.  When a
\* load_pub of the apply phase raises, step() raises it to its caller with the
\* error counter reset and the writes made so far kept: the Stage and due
\* keep their values.
StepOk(step, jitter) ==
    /\ TaskFrame
    /\ phase = "running"
    /\ error' = 0
    /\ fails' = 0
    /\ storage' = ApplyStep(storage, step)
    /\ IF CitedStored(storage, step)
       THEN /\ stage' = NextStage(step)
            /\ due' = now + step.delay + jitter
            /\ last' = [op |-> "step", outcome |-> "ok", delay |-> step.delay,
                        at |-> now]
       ELSE /\ UNCHANGED <<stage, due>>
            /\ last' = [op |-> "step", outcome |-> "load_raised", delay |-> 0,
                        at |-> now]
    /\ applied' = step
    /\ UNCHANGED <<now, wall, phase, task_file, at_save>>

Tick ==
    /\ TaskFrame
    /\ now < MaxNow
    /\ wall < WallOffset + MaxNow
    /\ now' = now + 1
    /\ wall' = wall + 1
    /\ UNCHANGED <<phase, stage, due, error, storage, task_file, last, fails,
                   at_save, applied>>

\* task.json as a process can find it at startup: absent, written by an
\* earlier run, or carrying a tag or fields no declared case has.
StartFiles ==
    {NoFile}
    \cup {[exists |-> TRUE,
           data |-> s.data @@ ("_index" :> s.INDEX) @@ ("due" :> WallOffset + d)]
          : s \in Stages, d \in {0, 1}}
    \cup {[exists |-> TRUE, data |-> ("_index" :> i) @@ ("due" :> WallOffset + 1)]
          : i \in {1, Cardinality(StageCases)}}

InitTaskVars ==
    /\ now = 0
    /\ wall = WallOffset
    /\ phase = "constructed"
    /\ stage = initial_stage
    /\ due = 0
    /\ error = 0
    /\ storage = EmptyStorage
    /\ task_file \in StartFiles
    /\ last = [op |-> "init", outcome |-> "ok", delay |-> 0, at |-> now]
    /\ fails = 0
    /\ at_save = [saved |-> FALSE, stage |-> initial_stage, due |-> 0, error |-> 0]
    /\ applied = NoStep

NextTask ==
    \/ Restart
    \/ Load
    \/ Save
    \/ StepRaises
    \/ StepInvalid
    \/ \E step \in StepResults(0) :
         \E jitter \in -JitterRange(step.delay)..JitterRange(step.delay) :
            StepOk(step, jitter)
    \/ Tick

\* the Task at rest, for the specifications of the other components
IdleTask ==
    /\ InitTaskVars
    /\ task_file = NoFile


----------------------------------------------------------------------------
(* similarity(): titles are sequences of characters *)

\* an upper-case letter, a lower-case letter, punctuation, whitespace
Chars == {"D", "d", "!", " "}

\* what the pattern \w matches
IsWord(c) == c \in {"D", "d"}

\* str.lower() on one character
LowerChar(c) == IF c = "D" THEN "d" ELSE c

lower(s) == [i \in 1..Len(s) |-> LowerChar(s[i])]

\* length of the longest run of word characters that starts s
RECURSIVE RunLen(_)
RunLen(s) ==
    IF s # <<>> /\ IsWord(Head(s)) THEN 1 + RunLen(Tail(s)) ELSE 0

\* re.compile(r"\w+").findall(s)
RECURSIVE findall(_)
findall(s) ==
    IF s = <<>> THEN <<>>
    ELSE IF ~IsWord(Head(s)) THEN findall(Tail(s))
    ELSE LET n == RunLen(s)
         IN  <<SubSeq(s, 1, n)>> \o findall(SubSeq(s, n + 1, Len(s)))

\* Mutant: the titles are compared without lower-casing them.
similarityCaseSensitive(a, b) ==
    IF findall(a.name) = findall(b.name) THEN 10 ELSE 0

similarity(a, b) ==
    LET title_a == findall(lower(a.name))
        title_b == findall(lower(b.name))
    IN  IF title_a = title_b THEN 10 ELSE 0

TitlesUpTo(n) == UNION {[1..m -> Chars] : m \in 0..n}

Compare ==
    /\ SimFrame
    /\ sim_out = -1
    /\ sim_out' = similarity(sim_a, sim_b)
    /\ UNCHANGED <<sim_a, sim_b>>

IdleSim ==
    /\ sim_a = [id |-> 1, name |-> <<>>]
    /\ sim_b = [id |-> 2, name |-> <<>>]
    /\ sim_out = -1

----------------------------------------------------------------------------
(* utils.locked and the save_sources handler it wraps *)

Requests == 1..MaxRequests

\* the source fields before any request updated them
NoFields == 0

\* Mutant: acquire() never waits.
CanAcquireAlways == TRUE

\* Lock.acquire() returns at once: the lock is free and nobody waits for it
CanAcquire == ~lock_locked /\ lock_waiters = <<>>

\* Lock.release(): the lock is freed and the first waiter's future completed
Release ==
    /\ lock_locked' = FALSE
    /\ lock_woken' = IF lock_waiters = <<>> THEN lock_woken
                     ELSE lock_woken \cup {Head(lock_waiters)}
    /\ UNCHANGED lock_waiters

\* A request arrives: wrapped() enters `async with lock`.  With the lock it
\* starts the handler, which suspends in `await request.json()`; without it
\* it suspends in acquire().
Call(r) ==
    /\ LockFrame
    /\ rpc[r] = "idle"
    /\ IF CanAcquire
       THEN /\ lock_locked' = TRUE
            /\ rpc' = [rpc EXCEPT ![r] = "in_body"]
            /\ UNCHANGED lock_waiters
       ELSE /\ lock_waiters' = Append(lock_waiters, r)
            /\ rpc' = [rpc EXCEPT ![r] = "waiting"]
            /\ UNCHANGED lock_locked
    /\ UNCHANGED <<lock_woken, source_fields>>

\* A woken waiter resumes in acquire(): it leaves the queue, takes the lock
\* and starts the handler.
Acquired(r) ==
    /\ LockFrame
    /\ rpc[r] = "waiting"
    /\ r \in lock_woken
    /\ lock_waiters' = SelectSeq(lock_waiters, LAMBDA q : q # r)
    /\ lock_woken' = lock_woken \ {r}
    /\ lock_locked' = TRUE
    /\ rpc' = [rpc EXCEPT ![r] = "in_body"]
    /\ UNCHANGED source_fields

\* request.json() returns: the fields are updated, the response is returned
\* and `async with` releases the lock.
BodyReturns(r) ==
    /\ LockFrame
    /\ rpc[r] = "in_body"
    /\ source_fields' = r
    /\ Release
    /\ rpc' = [rpc EXCEPT ![r] = "returned"]

\* request.json() or update_source_fields raises: `async with` releases the
\* lock and the exception leaves wrapped().
BodyRaises(r) ==
    /\ LockFrame
    /\ rpc[r] = "in_body"
    /\ Release
    /\ rpc' = [rpc EXCEPT ![r] = "raised"]
    /\ UNCHANGED source_fields

IdleLock ==
    /\ lock_locked = FALSE
    /\ lock_waiters = <<>>
    /\ lock_woken = {}
    /\ rpc = [r \in Requests |-> "idle"]
    /\ source_fields = NoFields

----------------------------------------------------------------------------
(* Merger *)

AUTO_DELAY == 24 * 60 * 60

\* SIMILARITY_THRESHOLD = 0.9, in tenths
SIMILARITY_THRESHOLD == 9

\* the namespaces of the configured sources, in the order of CRAWLERS
CRAWLERS == <<"A", "B", "C">>

\* itertools.combinations(seq, 2)
RECURSIVE combinations2(_)
combinations2(seq) ==
    IF Len(seq) < 2 THEN <<>>
    ELSE [j \in 1..(Len(seq) - 1) |-> <<seq[1], seq[j + 1]>>]
         \o combinations2(Tail(seq))

SourcePairs == combinations2(CRAWLERS)

\* what db.get_usernames() returns
Usernames == <<"u1", "u2">>

\* titles of the publications in the database
PubTitles == {<<"d", "!">>, <<"D", "d">>}

Slots == {<<Usernames[i], CRAWLERS[j]>> : i \in 1..Len(Usernames),
                                           j \in 1..Len(CRAWLERS)}

RECURSIVE SumLen(_, _)
SumLen(f, slots) ==
    IF slots = {} THEN 0
    ELSE LET sl == CHOOSE x \in slots : TRUE
         IN  Len(f[sl]) + SumLen(f, slots \ {sl})

\* db.get_source_publications(username, source)
get_source_publications(username, source) == db_pubs[<<username, source>>]

\* db.save_merges(username, result): the username's merge set is replaced
save_merges(m, username, res) == [m EXCEPT ![username] = res]

Merge(source_a, source_b, pub_a, pub_b, sim) ==
    [source_a |-> source_a, source_b |-> source_b, pub_a |-> pub_a,
     pub_b |-> pub_b, similarity |-> sim]

\* Mutant: the position in the product is lost at each yield, and the
\* product starts again from its first pair.
PairAtRestarted(pa, pb, n) == <<pa[1], pb[1]>>

\* Mutant: every publication of pubs_a is paired with the first of pubs_b.
PairAtFirst(pa, pb, n) == <<pa[((n - 1) \div Len(pb)) + 1], pb[1]>>

\* the n-th pair of itertools.product(pubs_a, pubs_b)
PairAt(pa, pb, n) ==
    <<pa[((n - 1) \div Len(pb)) + 1], pb[((n - 1) % Len(pb)) + 1]>>

\* the pair (pub_a, pub_b) of one comparison, by the publications' ids
PairIds(pair) == <<pair[1].id, pair[2].id>>

\* One iteration of the loop over the product, up to its `await`: the n-th
\* pair is compared and appended to the result when it qualifies.
Compared(res, source_a, source_b, pa, pb, n) ==
    LET pair == PairAt(pa, pb, n)
        sim  == similarity(pair[1], pair[2])
    IN  IF sim >= SIMILARITY_THRESHOLD
        THEN Append(res, Merge(source_a, source_b, unique_path_name(pair[1]),
                               unique_path_name(pair[2]), sim))
        ELSE res

\* Mutant: the loop over the source pairs ends after its first iteration.
LastSourcePairAlways(i) == TRUE

\* the loop over itertools.combinations(CRAWLERS, 2) is exhausted
LastSourcePair(i) == i >= Len(SourcePairs)

Running ==
    mpc \in {"waiting", "in_usernames", "in_pubs_a", "in_pubs_b", "in_yield",
             "in_save"}

InPass == mpc \in {"in_pubs_a", "in_pubs_b", "in_yield", "in_save"}

\* `await self._merge()` (line 56) has not returned: a sweep is in progress.
InSweep == mpc = "in_usernames" \/ InPass

\* The task can resume from its await: no cancellation is pending.
TaskResumes == ~must_cancel /\ UNCHANGED exitVars

NoLastSave == [user |-> "", seen |-> <<>>, compared |-> 0, dirty |-> FALSE]

\* Lines 48-49: clear the event and suspend in wait_for.
BeginWait ==
    /\ force_check' = FALSE
    /\ mpc' = "waiting"
    /\ waited' = 0
    /\ inner_ran' = FALSE
    /\ usernames' = <<>>
    /\ ui' = 0 /\ pi' = 0 /\ k' = 0
    /\ pubs_a' = <<>> /\ pubs_b' = <<>>
    /\ result' = <<>>

\* Lines 55-56 and 64: the sweep starts and suspends in get_usernames().
StartSweep(kind) ==
    /\ mpc' = "in_usernames"
    /\ mlast' = kind
    /\ trues' = 0
    /\ saves' = [u \in DOMAIN merges |-> 0]
    /\ old_merges' = merges
    /\ last_save' = NoLastSave
    /\ inner_ran' = FALSE
    /\ UNCHANGED <<waited, loopVars, db_pubs, merges, seen, compared, dirty,
                   pairs_done>>

\* _merge_user(usernames[i]) starts and suspends at its first await.
EnterUser(i) ==
    /\ ui' = i
    /\ result' = <<>>
    /\ pi' = 1
    /\ k' = 0
    /\ pubs_a' = <<>> /\ pubs_b' = <<>>
    /\ seen' = <<>>
    /\ compared' = 0
    /\ dirty' = FALSE
    /\ mpc' = IF SourcePairs = <<>> THEN "in_save" ELSE "in_pubs_a"

\* The loop over the source pairs moves on, or ends and save_merges is called.
NextSourcePair ==
    /\ k' = 0
    /\ pairs_done' = <<>>
    /\ IF LastSourcePair(pi)
       THEN mpc' = "in_save" /\ pi' = pi
       ELSE mpc' = "in_pubs_a" /\ pi' = pi + 1

AEnter ==
    /\ MergerFrame
    /\ UNCHANGED exitVars
    /\ mpc = "unstarted"
    /\ mpc' = "created"
    /\ mlast' = "step"
    /\ last_save' = NoLastSave
    /\ UNCHANGED <<force_check, waited, inner_ran, loopVars, db_pubs, merges, trues,
                   sweepObs>>

\* The task's first run: up to the first wait_for.
LoopStart ==
    /\ MergerFrame
    /\ TaskResumes
    /\ mpc = "created"
    /\ BeginWait
    /\ mlast' = "step"
    /\ last_save' = NoLastSave
    /\ UNCHANGED <<db_pubs, merges, trues, sweepObs>>

\* Mutant: force_merge() runs the sweep itself instead of setting the event.
ForceMergeStartsSweep ==
    /\ MergerFrame
    /\ UNCHANGED exitVars
    /\ Running
    /\ force_check' = FALSE
    /\ StartSweep("sweep_forced")

\* Lines 94-99: force_merge() sets the event unless it is already set.
\* When the task was cancelled in wait_for before the task made of
\* event.wait() had its first run, that task now finds the event set and is
\* done when the CancelledError arrives: wait_for returns its result and the
\* cancellation is lost (CPython before 3.12), or raises it (from 3.12 on).
ForceMerge ==
    /\ MergerFrame
    /\ UNCHANGED apc
    /\ must_cancel' \in
          IF ~force_check /\ mpc = "waiting" /\ must_cancel /\ ~inner_ran
          THEN {TRUE, FALSE}
          ELSE {must_cancel}
    /\ IF force_check
       THEN UNCHANGED <<force_check, trues>>
       ELSE /\ force_check' = TRUE
            /\ trues' = IF Running THEN Min(trues + 1, 2) ELSE trues
    /\ mlast' = "step"
    /\ last_save' = NoLastSave
    /\ UNCHANGED <<mpc, waited, inner_ran, loopVars, db_pubs, merges, sweepObs>>

\* wait_for (line 49) wraps event.wait() in a task of its own; this is its
\* first run, in which it suspends on the event when the event is not set.
InnerRuns ==
    /\ MergerFrame
    /\ UNCHANGED exitVars
    /\ mpc = "waiting"
    /\ ~inner_ran
    /\ inner_ran' = TRUE
    /\ mlast' = "step"
    /\ last_save' = NoLastSave
    /\ UNCHANGED <<force_check, mpc, waited, loopVars, db_pubs, merges, trues,
                   sweepObs>>

\* The clock of the timeout of wait_for advances; whether the inner task has
\* had its first run by then is the event loop's matter (InnerRuns).
MTick ==
    /\ MergerFrame
    /\ UNCHANGED exitVars
    /\ mpc = "waiting"
    /\ waited < AUTO_DELAY
    /\ waited' = waited + (AUTO_DELAY \div TicksPerPeriod)
    /\ mlast' = "step"
    /\ last_save' = NoLastSave
    /\ UNCHANGED <<force_check, mpc, inner_ran, loopVars, db_pubs, merges,
                   trues, sweepObs>>

\* wait_for returns because the event is set: the else branch clears it.
WakeForced ==
    /\ MergerFrame
    /\ TaskResumes
    /\ mpc = "waiting"
    /\ force_check
    /\ force_check' = FALSE
    /\ StartSweep("sweep_forced")

\* Mutant: wait_for times out as soon as it is entered.
TimedOutAtOnce == TRUE

\* the timeout of wait_for(..., AUTO_DELAY) has expired
TimedOut == waited >= AUTO_DELAY

\* wait_for raises TimeoutError: the event is left as it is.
WakeTimeout ==
    /\ MergerFrame
    /\ TaskResumes
    /\ mpc = "waiting"
    /\ TimedOut
    /\ UNCHANGED force_check
    /\ StartSweep("sweep_timed")

\* The end of the sweep: back to the top of the loop, up to wait_for.
EndSweep == BeginWait

GotUsernames ==
    /\ MergerFrame
    /\ TaskResumes
    /\ mpc = "in_usernames"
    /\ usernames' = Usernames
    /\ IF Usernames = <<>>
       THEN /\ EndSweep
            /\ UNCHANGED <<seen, compared, dirty>>
       ELSE /\ EnterUser(1)
            /\ UNCHANGED <<force_check, waited, inner_ran>>
    /\ mlast' = "step"
    /\ last_save' = NoLastSave
    /\ UNCHANGED <<db_pubs, merges, trues, saves, old_merges, pairs_done>>

GotPubsA ==
    /\ MergerFrame
    /\ TaskResumes
    /\ mpc = "in_pubs_a"
    /\ pubs_a' = get_source_publications(usernames[ui], SourcePairs[pi][1])
    /\ mpc' = "in_pubs_b"
    /\ mlast' = "step"
    /\ last_save' = NoLastSave
    /\ UNCHANGED <<force_check, waited, inner_ran, usernames, ui, pi, pubs_b, k, result,
                   db_pubs, merges, trues, sweepObs>>

GotPubsB ==
    /\ MergerFrame
    /\ TaskResumes
    /\ mpc = "in_pubs_b"
    /\ LET source_a == SourcePairs[pi][1]
           source_b == SourcePairs[pi][2]
           pb       == get_source_publications(usernames[ui], source_b)
       IN  /\ pubs_b' = pb
           /\ seen' = Append(seen, <<source_a, source_b, pubs_a, pb>>)
           /\ IF Len(pubs_a) * Len(pb) = 0
              THEN /\ NextSourcePair
                   /\ UNCHANGED <<result, compared>>
              ELSE /\ result' = Compared(result, source_a, source_b, pubs_a, pb, 1)
                   /\ pairs_done' = <<PairIds(PairAt(pubs_a, pb, 1))>>
                   /\ k' = 1
                   /\ compared' = compared + 1
                   /\ mpc' = "in_yield"
                   /\ pi' = pi
    /\ mlast' = "step"
    /\ last_save' = NoLastSave
    /\ UNCHANGED <<force_check, waited, inner_ran, usernames, ui, pubs_a, db_pubs, merges,
                   trues, saves, old_merges, dirty>>

\* The task resumes from `await asyncio.sleep(0)`.
AfterYield ==
    /\ MergerFrame
    /\ TaskResumes
    /\ mpc = "in_yield"
    /\ IF k < Len(pubs_a) * Len(pubs_b)
       THEN /\ result' = Compared(result, SourcePairs[pi][1], SourcePairs[pi][2],
                                  pubs_a, pubs_b, k + 1)
            /\ pairs_done' =
                  Append(pairs_done, PairIds(PairAt(pubs_a, pubs_b, k + 1)))
            /\ k' = k + 1
            /\ compared' = compared + 1
            /\ UNCHANGED <<mpc, pi>>
       ELSE /\ NextSourcePair
            /\ UNCHANGED <<result, compared>>
    /\ mlast' = "step"
    /\ last_save' = NoLastSave
    /\ UNCHANGED <<force_check, waited, inner_ran, usernames, ui, pubs_a, pubs_b, db_pubs,
                   merges, trues, saves, old_merges, seen, dirty>>

\* save_merges returns: the next username, or the end of the sweep.
Saved ==
    /\ MergerFrame
    /\ TaskResumes
    /\ mpc = "in_save"
    /\ merges' = save_merges(merges, usernames[ui], result)
    /\ saves' = [saves EXCEPT ![usernames[ui]] = @ + 1]
    /\ last_save' = [user |-> usernames[ui], seen |-> seen,
                     compared |-> compared, dirty |-> dirty]
    /\ mlast' = "saved"
    /\ IF ui < Len(usernames)
       THEN /\ EnterUser(ui + 1)
            /\ UNCHANGED <<force_check, waited, inner_ran, usernames>>
       ELSE /\ EndSweep
            /\ UNCHANGED <<seen, compared, dirty>>
    /\ UNCHANGED <<db_pubs, trues, old_merges, pairs_done>>

\* A database call of the sweep raises: `except Exception` logs it and
\* _periodic_merge returns.
DbRaises ==
    /\ MergerFrame
    /\ TaskResumes
    /\ mpc \in {"in_usernames", "in_pubs_a", "in_pubs_b", "in_save"}
    /\ mpc' = "finished"
    /\ mlast' = "raised"
    /\ last_save' = NoLastSave
    /\ UNCHANGED <<force_check, waited, inner_ran, loopVars, db_pubs, merges, trues,
                   sweepObs>>

\* A crawl stores one more publication of a username under a source.
DbAdd(slot, title, limit) ==
    /\ MergerFrame
    /\ UNCHANGED exitVars
    /\ SumLen(db_pubs, Slots) < limit
    /\ db_pubs' = [db_pubs EXCEPT ![slot] =
                      Append(@, [id |-> <<slot[2], Len(@) + 1>>, name |-> title])]
    /\ dirty' = TRUE
    /\ mlast' = "step"
    /\ last_save' = NoLastSave
    /\ UNCHANGED <<force_check, mpc, waited, inner_ran, loopVars, merges, trues, saves,
                   old_merges, seen, compared, pairs_done>>

\* Lines 107-110: __aexit__ cancels the task and awaits it.  cancel() on a
\* task that has ended does nothing and awaiting it does not suspend:
\* __aexit__ returns in the same step (lines 110-114).  On a live task
\* __aexit__ suspends until the task has ended.  When the task is in
\* wait_for and the event was set but the task has not resumed yet, wait_for
\* either raises the CancelledError or, where it returns the result of the
\* completed inner future instead (CPython before 3.12), swallows it.
\* A force_merge() that follows while the inner task has not had its first
\* run has the same effect (see ForceMerge).
AExitCancel ==
    /\ MergerFrame
    /\ apc = "none"
    /\ mpc # "unstarted"
    /\ apc' = IF mpc \in {"finished", "cancelled"} THEN "returned"
              ELSE "awaiting"
    /\ must_cancel' \in
          IF mpc \in {"finished", "cancelled"} THEN {FALSE}
          ELSE IF mpc = "waiting" /\ force_check THEN {TRUE, FALSE}
          ELSE {TRUE}
    /\ mlast' = "step"
    /\ last_save' = NoLastSave
    /\ UNCHANGED <<force_check, mpc, waited, inner_ran, loopVars, db_pubs, merges, trues,
                   sweepObs>>

\* The task resumes with CancelledError: lines 58-59 re-raise it and the
\* task ends cancelled.
Cancelled ==
    /\ MergerFrame
    /\ must_cancel
    /\ mpc \in {"created", "waiting", "in_usernames", "in_pubs_a", "in_pubs_b",
                "in_yield", "in_save"}
    /\ mpc' = "cancelled"
    /\ must_cancel' = FALSE
    /\ mlast' = "step"
    /\ last_save' = NoLastSave
    /\ UNCHANGED <<apc, force_check, waited, inner_ran, loopVars, db_pubs, merges, trues,
                   sweepObs>>

\* Lines 110-114: the awaited task has ended; __aexit__ returns.
AExitReturn ==
    /\ MergerFrame
    /\ apc = "awaiting"
    /\ mpc \in {"finished", "cancelled"}
    /\ apc' = "returned"
    /\ mlast' = "step"
    /\ last_save' = NoLastSave
    /\ UNCHANGED <<must_cancel, force_check, mpc, waited, inner_ran, loopVars, db_pubs,
                   merges, trues, sweepObs>>

\* the Merger after __init__, whatever the database holds
IdleLoop ==
    /\ apc = "none"
    /\ must_cancel = FALSE
    /\ inner_ran = FALSE
    /\ force_check = FALSE
    /\ mpc = "unstarted"
    /\ waited = 0
    /\ usernames = <<>>
    /\ ui = 0 /\ pi = 0 /\ k = 0
    /\ pubs_a = <<>> /\ pubs_b = <<>>
    /\ result = <<>>
    /\ merges = [u \in {Usernames[i] : i \in 1..Len(Usernames)} |-> <<>>]
    /\ mlast = "step"
    /\ trues = 0
    /\ saves = [u \in {Usernames[i] : i \in 1..Len(Usernames)} |-> 0]
    /\ old_merges = [u \in {Usernames[i] : i \in 1..Len(Usernames)} |-> <<>>]
    /\ pairs_done = <<>>
    /\ seen = <<>>
    /\ compared = 0
    /\ dirty = FALSE
    /\ last_save = NoLastSave

IdleMerger == IdleLoop /\ db_pubs = [sl \in Slots |-> <<>>]

----------------------------------------------------------------------------
(* Heap of Tasks: utils.Heap over heapq, ordered by Task.__lt__.  Positions
   are counted from 0 as in the code; position p is element p + 1. *)

\* Task.__lt__ and Task.__gt__
TaskLt(a, b) == a.due < b.due
TaskGt(a, b) == a.due > b.due

Put(h, pos, item) == [h EXCEPT ![pos + 1] = item]

\* heapq._siftdown(heap, startpos, pos), newitem being the item to place
RECURSIVE SiftDown(_, _, _, _)
SiftDown(h, startpos, pos, newitem) ==
    IF pos > startpos
    THEN LET parentpos == (pos - 1) \div 2
             parent    == h[parentpos + 1]
         IN  IF TaskLt(newitem, parent)
             THEN SiftDown(Put(h, pos, parent), startpos, parentpos, newitem)
             ELSE Put(h, pos, newitem)
    ELSE Put(h, pos, newitem)

\* heapq._siftup(heap, pos): the loop that moves the smaller child up
RECURSIVE SiftUpLoop(_, _, _, _)
SiftUpLoop(h, startpos, pos, newitem) ==
    LET endpos   == Len(h)
        leftpos  == 2 * pos + 1
        rightpos == leftpos + 1
    IN  IF leftpos < endpos
        THEN LET childpos ==
                     IF rightpos < endpos
                        /\ ~TaskLt(h[leftpos + 1], h[rightpos + 1])
                     THEN rightpos ELSE leftpos
             IN  SiftUpLoop(Put(h, pos, h[childpos + 1]), startpos, childpos,
                            newitem)
        ELSE SiftDown(Put(h, pos, newitem), startpos, pos, newitem)

SiftUp(h, pos) == SiftUpLoop(h, pos, pos, h[pos + 1])

\* heapq.heapify: for i in reversed(range(n // 2)): _siftup(x, i)
RECURSIVE HeapifyFrom(_, _)
HeapifyFrom(h, i) == IF i < 0 THEN h ELSE HeapifyFrom(SiftUp(h, i), i - 1)

heapify(x) == HeapifyFrom(x, (Len(x) \div 2) - 1)

\* Mutant: the pushed item is appended and not sifted.
heappushNoSift(h, item) == Append(h, item)

heappush(h, item) ==
    LET appended == Append(h, item)
    IN  SiftDown(appended, 0, Len(appended) - 1, item)

\* heapq.heappop: the heap it leaves, and the item it returns
HeapAfterPop(h) ==
    LET lastelt == h[Len(h)]
        rest    == SubSeq(h, 1, Len(h) - 1)
    IN  IF rest # <<>> THEN SiftUp(Put(rest, 0, lastelt), 0) ELSE rest

heappop(h) == IF Len(h) > 1 THEN h[1] ELSE h[Len(h)]

peek(h) == h[1]

\* due times of the Tasks in the heap, as offsets from a time t
HeapDues == {1, 3, 5}

HeapTasks == [id : 1..MaxTasks, due : HeapDues]

NoTask == [id |-> 0, due |-> 0]

Held(h) == {h[i] : i \in 1..Len(h)}

HeldIds(h) == {h[i].id : i \in 1..Len(h)}

\* Heap(iterable): the sequences of distinct Tasks it can be built from
Iterables ==
    {x \in UNION {[1..n -> HeapTasks] : n \in 0..MaxTasks} :
        \A i, j \in 1..Len(x) : i # j => x[i].id # x[j].id}

Push(item) ==
    /\ HeapFrame
    /\ Len(heap) < MaxTasks
    /\ item.id \notin HeldIds(heap)
    /\ heap' = heappush(heap, item)
    /\ hop' = "push"
    /\ UNCHANGED <<popped, prev>>

Pop ==
    /\ HeapFrame
    /\ heap # <<>>
    /\ popped' = heappop(heap)
    /\ prev' = popped
    /\ heap' = HeapAfterPop(heap)
    /\ hop' = "pop"

InitHeap ==
    /\ IdleTask
    /\ IdleSim
    /\ IdleMerger
    /\ IdleLock
    /\ \E x \in Iterables : heap = heapify(x)
    /\ popped = NoTask
    /\ prev = NoTask
    /\ hop = "init"

IdleHeap ==
    /\ heap = <<>>
    /\ popped = NoTask
    /\ prev = NoTask
    /\ hop = "init"

NextHeap ==
    \/ \E item \in HeapTasks : Push(item)
    \/ Pop

SpecHeap == InitHeap /\ [][NextHeap]_vars

\* C2: peek() and pop() return a Task whose due is the smallest among the
\* Tasks held, whatever pushes and pops came before; Tasks with equal due are
\* neither less-than nor greater-than each other.
C2_PopsSmallestDue ==
    /\ heap # <<>> =>
          /\ \A t \in Held(heap) : peek(heap).due <= t.due
          /\ heappop(heap) = peek(heap)
    /\ hop = "pop" => \A t \in Held(heap) : popped.due <= t.due
    /\ \A a, b \in Held(heap) :
          a.due = b.due => ~TaskLt(a, b) /\ ~TaskGt(a, b)

\* C2 witness: of Tasks due at t+5, t+1 and t+3, the one due at t+1 was taken,
\* then the one due at t+3, and the one due at t+5 is next.
C2_Witness ==
    /\ hop = "pop"
    /\ prev.due = 1
    /\ popped.due = 3
    /\ Len(heap) = 1
    /\ peek(heap).due = 5

----------------------------------------------------------------------------
(* Specification of the Merger *)

InitMerger == IdleTask /\ IdleHeap /\ IdleSim /\ IdleMerger /\ IdleLock

NextMerger ==
    \/ AEnter
    \/ LoopStart
    \/ ForceMerge
    \/ MTick
    \/ InnerRuns
    \/ WakeForced
    \/ WakeTimeout
    \/ GotUsernames
    \/ GotPubsA
    \/ GotPubsB
    \/ AfterYield
    \/ Saved
    \/ DbRaises
    \/ \E slot \in Slots, title \in PubTitles : DbAdd(slot, title, MaxLoopPubs)

SpecMerger == InitMerger /\ [][NextMerger]_vars

\* The event loop runs the timeout callback of wait_for once it is due, and
\* resumes the task when the event is set.
SpecMergerFair ==
    SpecMerger /\ WF_vars(WakeTimeout) /\ WF_vars(WakeForced)

\* The loop together with __aexit__ (lines 106-114).
InitExit == IdleTask /\ IdleHeap /\ IdleSim /\ IdleMerger /\ IdleLock

NextExit ==
    \/ AEnter
    \/ LoopStart
    \/ ForceMerge
    \/ MTick
    \/ InnerRuns
    \/ WakeForced
    \/ WakeTimeout
    \/ GotUsernames
    \/ GotPubsA
    \/ GotPubsB
    \/ AfterYield
    \/ Saved
    \/ DbRaises
    \/ \E slot \in Slots, title \in PubTitles : DbAdd(slot, title, MaxLoopPubs)
    \/ AExitCancel
    \/ Cancelled
    \/ AExitReturn

SpecExit == InitExit /\ [][NextExit]_vars

\* The sweeps over a larger database.  force_merge() is left out: it only
\* sets the event, which no step of a sweep reads, and the sweeps start on
\* the timer.
InitSweep == IdleTask /\ IdleHeap /\ IdleSim /\ IdleMerger /\ IdleLock

NextSweep ==
    \/ AEnter
    \/ LoopStart
    \/ MTick
    \/ InnerRuns
    \/ WakeTimeout
    \/ GotUsernames
    \/ GotPubsA
    \/ GotPubsB
    \/ AfterYield
    \/ Saved
    \/ DbRaises
    \/ \E slot \in Slots, title \in PubTitles : DbAdd(slot, title, MaxPubs)

SpecSweep == InitSweep /\ [][NextSweep]_vars

\* The event loop resumes the task after each await of the sweep.
SpecSweepFair ==
    SpecSweep /\ WF_vars(GotPubsA) /\ WF_vars(GotPubsB) /\ WF_vars(AfterYield)
              /\ WF_vars(Saved)

\* A database in which the first username has two publications under the
\* first source and one under the second: the product of the first source
\* pair has two pairs.
YieldDb ==
    [sl \in Slots |->
        IF sl = <<Usernames[1], CRAWLERS[1]>>
        THEN <<[id |-> <<CRAWLERS[1], 1>>, name |-> <<"d", "!">>],
               [id |-> <<CRAWLERS[1], 2>>, name |-> <<"D", "d">>]>>
        ELSE IF sl = <<Usernames[1], CRAWLERS[2]>>
        THEN <<[id |-> <<CRAWLERS[2], 1>>, name |-> <<"D", "d">>]>>
        ELSE <<>>]

\* The sweeps with the other work of the process at their yield points:
\* crawls store publications and force_merge() is called while the sweep is
\* suspended after a comparison.
InitYield ==
    IdleTask /\ IdleHeap /\ IdleSim /\ IdleLoop /\ IdleLock /\ db_pubs = YieldDb

NextYield ==
    \/ AEnter
    \/ LoopStart
    \/ ForceMerge
    \/ MTick
    \/ InnerRuns
    \/ WakeForced
    \/ WakeTimeout
    \/ GotUsernames
    \/ GotPubsA
    \/ GotPubsB
    \/ AfterYield
    \/ Saved
    \/ DbRaises
    \/ \E slot \in Slots, title \in PubTitles : DbAdd(slot, title, MaxYieldPubs)

SpecYield == InitYield /\ [][NextYield]_vars

\* The event loop resumes the task after each await of the sweep.
SpecYieldFair ==
    SpecYield /\ WF_vars(GotPubsA) /\ WF_vars(GotPubsB) /\ WF_vars(AfterYield)
              /\ WF_vars(Saved)

----------------------------------------------------------------------------
(* Claims about the Merger's loop, checked under SpecMerger *)

\* C3: between two consecutive starts of a sweep at most one force_merge()
\* call returns true.  `trues` counts the calls that returned true while the
\* loop was running since the last start of a sweep; when it reaches 2 the
\* loop is waiting with the event set, and its next step is the next start.
C3_OneTruePerSweepStart == trues <= 1

\* C4: a force_merge() call that returned true while the loop was running is
\* followed by the start of a sweep: the loop is never back in its wait with
\* the event cleared while such a request has seen no sweep start.
C4_AcceptedRequestKept == (trues >= 1 /\ mpc = "waiting") => force_check

\* C5: when a sweep raises, the periodic loop keeps running and returns to
\* waiting on the timer or the force signal.
C5_SweepFailureContained == mlast = "raised" => mpc = "waiting"

\* C12: once __aexit__ has cancelled the task, the loop starts no sweep and
\* calls no save_merges.
C12_ExitStopsLoop ==
    apc # "none" => mlast \notin {"sweep_forced", "sweep_timed", "saved"}

\* C11: a sweep starts from the wait only when the full period AUTO_DELAY has
\* elapsed since the wait began or the force signal is set, and once the period
\* has elapsed with no request the timed sweep starts.
C11_TimedSweepAfterFullPeriod ==
    /\ [][(mpc = "waiting" /\ mpc' = "in_usernames") =>
             (waited >= 24 * 60 * 60 \/ force_check)]_vars
    /\ [](mlast = "sweep_timed" => waited >= 24 * 60 * 60)
    /\ (mpc = "waiting" /\ waited >= 24 * 60 * 60 /\ ~force_check) ~>
          (mlast = "sweep_timed" \/ force_check)

\* C11 witness: a timed sweep has just started, no request having been made.
C11_Witness ==
    /\ mlast = "sweep_timed"
    /\ mpc = "in_usernames"
    /\ ~force_check
    /\ waited >= 24 * 60 * 60

\* C22: sweeps never overlap.  A sweep starts only when none is in progress;
\* a force_merge() call made during a sweep, and a timer that has expired,
\* leave the sweep where it is and start no other; and within a sweep the
\* next username is entered only when save_merges of the one before it has
\* returned.
C22_SweepsNeverOverlap ==
    /\ [][mlast' \in {"sweep_forced", "sweep_timed"} =>
             (mpc = "waiting" /\ mpc' = "in_usernames")]_vars
    /\ [][(InSweep /\ ((~force_check /\ force_check') \/ trues' # trues)) =>
             (mpc' = mpc /\ UNCHANGED <<loopVars, saves, merges>>)]_vars
    /\ [][(InSweep /\ InSweep') =>
             /\ usernames' = usernames \/ mpc = "in_usernames"
             /\ ui' \in {ui, ui + 1}
             /\ (ui >= 1 /\ ui' = ui + 1) =>
                   (mlast' = "saved" /\ last_save'.user = usernames[ui])]_vars

\* C22 witness: force_merge() was accepted during a timed sweep that has
\* reached its second username, and the sweep is still in progress.
C22_Witness ==
    /\ InPass
    /\ ui = 2
    /\ trues = 1
    /\ force_check
    /\ TimedOut

----------------------------------------------------------------------------
(* Claims about the sweeps, checked under SpecSweep *)

Range(f) == {f[i] : i \in DOMAIN f}

RECURSIVE PairsIn(_)
PairsIn(sn) ==
    IF sn = <<>> THEN 0
    ELSE Len(Head(sn)[3]) * Len(Head(sn)[4]) + PairsIn(Tail(sn))

\* C6: while a username is being merged the stored merge set is the one the
\* sweep found, and save_merges has not been called for it; save_merges is
\* called once per username per sweep, after every source pair was read and
\* every publication pair of the lists read was compared.
C6_OnlyCompletePassesStored ==
    /\ InPass =>
          /\ \A j \in ui..Len(usernames) :
                /\ merges[usernames[j]] = old_merges[usernames[j]]
                /\ saves[usernames[j]] = 0
          /\ \A j \in 1..(ui - 1) : saves[usernames[j]] = 1
    /\ mlast = "saved" =>
          /\ saves[last_save.user] = 1
          /\ [i \in 1..Len(last_save.seen) |->
                <<last_save.seen[i][1], last_save.seen[i][2]>>] = SourcePairs
          /\ last_save.compared = PairsIn(last_save.seen)
    /\ (mlast = "saved" /\ mpc = "waiting") =>
          \A j \in 1..Len(Usernames) : saves[Usernames[j]] = 1

\* C6 witness: the sweep is at a yield point with a partial result that is
\* not the stored set, and the stored set is an earlier sweep's result.
C6_Witness ==
    /\ mpc = "in_yield"
    /\ result # <<>>
    /\ merges[usernames[ui]] # <<>>
    /\ merges[usernames[ui]] # result

\* the ids of the pairs of itertools.product(pa, pb)
ProductIds(pa, pb) ==
    {<<pa[i].id, pb[j].id>> : i \in 1..Len(pa), j \in 1..Len(pb)}

\* C19: the sweep compares one pair between two yields; whatever happens at
\* the yield points, it keeps the lists it read and its position in them;
\* when it leaves a source pair every pair of the two lists was compared
\* exactly once; and the pass then ends (with save_merges, or with a raising
\* database call).
C19_SweepKeepsPosition ==
    /\ [](mpc = "in_yield" =>
            /\ Len(pairs_done) = k /\ k >= 1
            /\ Cardinality(Range(pairs_done)) = Len(pairs_done)
            /\ Range(pairs_done) \subseteq ProductIds(pubs_a, pubs_b))
    /\ [][Len(pairs_done') <= Len(pairs_done) + 1]_vars
    /\ [][(mpc = "in_yield" /\ mpc' = "in_yield") =>
            /\ pubs_a' = pubs_a /\ pubs_b' = pubs_b
            /\ ui' = ui /\ pi' = pi
            /\ SubSeq(pairs_done', 1, Len(pairs_done)) = pairs_done]_vars
    /\ [][(mpc = "in_yield" /\ mpc' # "in_yield") =>
            /\ Range(pairs_done) = ProductIds(pubs_a, pubs_b)
            /\ Len(pairs_done) = Len(pubs_a) * Len(pubs_b)]_vars
    /\ (mpc = "in_yield") ~> (mlast \in {"saved", "raised"})

\* C19 witness: the sweep stands at the yield after the last of several
\* pairs; since it read pubs_b, that is at a yield point of this product, a
\* crawl has stored a publication in the list pubs_b was read from, and
\* force_merge() was accepted during the sweep.
C19_Witness ==
    /\ mpc = "in_yield"
    /\ Len(pairs_done) >= 2
    /\ Len(pairs_done) = Len(pubs_a) * Len(pubs_b)
    /\ get_source_publications(usernames[ui], SourcePairs[pi][2]) # pubs_b
    /\ force_check
    /\ trues >= 1

\* the merge records of the publication lists pa and pb of two sources
MergesOf(source_a, source_b, pa, pb) ==
    {Merge(source_a, source_b, unique_path_name(pa[p[1]]),
           unique_path_name(pb[p[2]]), similarity(pa[p[1]], pb[p[2]])) :
        p \in {q \in (1..Len(pa)) \X (1..Len(pb)) :
                  similarity(pa[q[1]], pb[q[2]]) >= 9}}

ExpectedOver(sn) ==
    UNION {MergesOf(e[1], e[2], e[3], e[4]) : e \in Range(sn)}

ExpectedFromDb(username) ==
    UNION {MergesOf(CRAWLERS[p[1]], CRAWLERS[p[2]],
                    db_pubs[<<username, CRAWLERS[p[1]]>>],
                    db_pubs[<<username, CRAWLERS[p[2]]>>]) :
        p \in {q \in (1..Len(CRAWLERS)) \X (1..Len(CRAWLERS)) : q[1] < q[2]}}

\* C7: the merge set saved for a username is exactly the set of records over
\* every unordered pair of distinct sources and every pair of the username's
\* publications in the two sources whose similarity is at least 0.9, each
\* once; it replaces the set stored before.
C7_SavedMergesExact ==
    mlast = "saved" =>
        LET saved == merges[last_save.user]
        IN  /\ Range(saved) = ExpectedOver(last_save.seen)
            /\ Len(saved) = Cardinality(ExpectedOver(last_save.seen))
            /\ {<<e[1], e[2]>> : e \in Range(last_save.seen)} =
                  {<<CRAWLERS[p[1]], CRAWLERS[p[2]]>> :
                      p \in {q \in (1..Len(CRAWLERS)) \X (1..Len(CRAWLERS)) :
                                q[1] < q[2]}}
            /\ ~last_save.dirty => Range(saved) = ExpectedFromDb(last_save.user)

Names(pubs) == [i \in 1..Len(pubs) |-> pubs[i].name]

\* C7 witness: source A holds p1 titled "d!", source B holds p2 titled "d!"
\* and p3 titled "Dd", source C holds nothing, and the one record
\* (A, B, p1, p2, 1.0) was saved.
C7_Witness ==
    /\ mlast = "saved"
    /\ last_save.user = "u1"
    /\ ~last_save.dirty
    /\ Names(db_pubs[<<"u1", "A">>]) = << <<"d", "!">> >>
    /\ Names(db_pubs[<<"u1", "B">>]) = << <<"d", "!">>, <<"D", "d">> >>
    /\ db_pubs[<<"u1", "C">>] = <<>>
    /\ merges["u1"] = << Merge("A", "B", <<"pub", <<"A", 1>>>>,
                               <<"pub", <<"B", 1>>>>, 10) >>

----------------------------------------------------------------------------
(* Specification of save_sources under utils.locked, and its claim *)

InitLock == IdleTask /\ IdleHeap /\ IdleSim /\ IdleMerger /\ IdleLock

NextLock ==
    \/ \E r \in Requests : Call(r)
    \/ \E r \in Requests : Acquired(r)
    \/ \E r \in Requests : BodyReturns(r)
    \/ \E r \in Requests : BodyRaises(r)

SpecLock == InitLock /\ [][NextLock]_vars

\* The event loop resumes a woken waiter, and a handler that was started ends.
SpecLockFair ==
    /\ SpecLock
    /\ \A r \in Requests : WF_vars(Acquired(r))
    /\ \A r \in Requests : WF_vars(BodyReturns(r) \/ BodyRaises(r))

InBody == {r \in Requests : rpc[r] = "in_body"}

\* C20: at most one invocation of save_sources is between its start and its
\* end; a request starts the handler only when no other request is in it; the
\* lock is released when the handler returns and when it raises, so a request
\* that waits for the lock gets it.
C20_SaveSourcesSerialized ==
    /\ [](Cardinality(InBody) <= 1)
    /\ [](InBody # {} => lock_locked)
    /\ [](InBody = {} => (~lock_locked /\
                            (lock_waiters # <<>> =>
                                Head(lock_waiters) \in lock_woken)))
    /\ [][\A r \in Requests :
            (rpc[r] # "in_body" /\ rpc'[r] = "in_body") => InBody = {}]_vars
    /\ \A r \in Requests : (rpc[r] = "waiting") ~> (rpc[r] = "in_body")

\* C20 witness: a request raised in the handler, and of the two requests that
\* waited meanwhile one is now in the handler and the other still waits.
C20_Witness ==
    /\ \E r \in Requests : rpc[r] = "raised"
    /\ \E r \in Requests : rpc[r] = "in_body"
    /\ \E r \in Requests : rpc[r] = "waiting"

----------------------------------------------------------------------------
(* Specification of the Task *)

InitTask == InitTaskVars /\ IdleHeap /\ IdleSim /\ IdleMerger /\ IdleLock

SpecTask == InitTask /\ [][NextTask]_vars

\* The Task with a source whose steps return publications: the apply phase.
InitStore == InitTaskVars /\ IdleHeap /\ IdleSim /\ IdleMerger /\ IdleLock

NextStore ==
    \/ Load
    \/ StepRaises
    \/ StepInvalid
    \/ \E step \in StoreSteps(MaxStorePubs) :
         \E jitter \in -JitterRange(step.delay)..JitterRange(step.delay) :
            StepOk(step, jitter)

SpecStore == InitStore /\ [][NextStore]_vars

----------------------------------------------------------------------------
(* Specification of similarity() and its claims *)

InitSim ==
    /\ IdleTask
    /\ IdleHeap
    /\ IdleMerger
    /\ IdleLock
    /\ \E ta, tb \in TitlesUpTo(MaxLen) :
          /\ sim_a = [id |-> 1, name |-> ta]
          /\ sim_b = [id |-> 2, name |-> tb]
    /\ sim_out = -1

NextSim == Compare

SpecSim == InitSim /\ [][NextSim]_vars

\* The words of a title, stated without scanning it: a word is a maximal run
\* of word characters, words are ordered by where they start, and each is
\* lower-cased after it is cut out.
WordSpans(t) ==
    {sp \in (1..Len(t)) \X (1..Len(t)) :
        /\ sp[1] <= sp[2]
        /\ \A i \in sp[1]..sp[2] : IsWord(t[i])
        /\ sp[1] = 1 \/ ~IsWord(t[sp[1] - 1])
        /\ sp[2] = Len(t) \/ ~IsWord(t[sp[2] + 1])}

SpanAt(t, n) ==
    CHOOSE sp \in WordSpans(t) :
        Cardinality({o \in WordSpans(t) : o[1] < sp[1]}) = n - 1

Words(t) ==
    [n \in 1..Cardinality(WordSpans(t)) |->
        LET sp == SpanAt(t, n)
        IN  [i \in 1..(sp[2] - sp[1] + 1) |-> LowerChar(t[sp[1] + i - 1])]]

IsStrictPrefix(x, y) == Len(x) < Len(y) /\ SubSeq(y, 1, Len(x)) = x

\* C8: similarity(a, b) is 1.0 exactly when the lower-cased word sequences of
\* the two titles are identical, whatever the casing, punctuation and
\* whitespace between the words, and 0.0 otherwise, also when one word
\* sequence is a prefix of the other; it is symmetric.
C8_SimilarityIsWordEquality ==
    sim_out # -1 =>
        /\ sim_out \in {0, 10}
        /\ sim_out = 10 <=> Words(sim_a.name) = Words(sim_b.name)
        /\ IsStrictPrefix(Words(sim_a.name), Words(sim_b.name)) => sim_out = 0
        /\ sim_out = similarity(sim_b, sim_a)

\* C8 witness: "D!d" and "d D" differ in casing, punctuation and whitespace
\* and were found to have similarity 1.0.
C8_Witness ==
    /\ sim_out = 10
    /\ sim_a.name = <<"D", "!", "d">>
    /\ sim_b.name = <<"d", " ", "D">>

----------------------------------------------------------------------------
(* Claims about the Task, checked under SpecTask *)

\* C1: the n-th consecutive failing step sets due = now + ladder[min(n-1, 5)]
\* with the ladder 1, 10, 60, 600, 3600, 86400 seconds and no jitter; the
\* error counter is n after it, and it is 0 after a step that did not fail, so
\* the next failure uses the 1 s delay again.
C1_BackoffLadder ==
    /\ error = fails
    /\ (last.op = "step" /\ last.outcome = "raised") =>
          /\ fails >= 1
          /\ last.delay = <<1, 10, 60, 600, 3600, 86400>>[Min(fails - 1, 5) + 1]
          /\ due = last.at + last.delay
    /\ (last.op = "step" /\ last.outcome = "ok") => error = 0

\* C1 witness: a seventh failure in a row, delayed by the last ladder entry.
C1_Witness ==
    /\ last.op = "step" /\ last.outcome = "raised"
    /\ fails >= 7
    /\ due = last.at + 86400

\* the wall-clock instant of the Task's due
DueInstant == wall + (due - now)

LoadedFromSave == last.op = "load" /\ last.outcome = "ok" /\ at_save.saved

\* C9 (original): a Task saved and loaded into a fresh Task has the same Stage
\* tag and fields, the same due instant, and chooses the same delay on its
\* next failing step as the Task that was saved.
C9_RoundTripSameBackoff ==
    LoadedFromSave =>
        /\ stage = at_save.stage
        /\ DueInstant = at_save.due
        /\ ErrorDelay(error) = ErrorDelay(at_save.error)

\* C9 (amended): a Task saved and loaded into a fresh Task has the same Stage
\* tag and fields and the same due instant; its error counter is 0, so its next
\* failing step is delayed by 1 s, which is the saved Task's next delay when
\* that Task's counter was 0.
C9_RoundTrip ==
    LoadedFromSave =>
        /\ stage.INDEX = at_save.stage.INDEX
        /\ stage.data = at_save.stage.data
        /\ DueInstant = at_save.due
        /\ error = 0
        /\ ErrorDelay(error) = 1
        /\ at_save.error = 0 => ErrorDelay(error) = ErrorDelay(at_save.error)

\* C9 witness: a Task with a cursor Stage and failures behind it was saved and
\* loaded under a loop clock that differs from the one it was saved under.
C9_Witness ==
    /\ LoadedFromSave
    /\ at_save.stage.INDEX = 1
    /\ at_save.error > 0
    /\ at_save.due # due
    /\ wall - now # WallOffset

\* C10: loading a record whose tag matches no declared Stage case ends in a
\* load error.
C10_UnknownTagIsFatal ==
    (/\ last.op = "load"
     /\ task_file.exists
     /\ task_file.data["_index"] \notin StageCases) => last.outcome = "error"

\* C13: after a successful step whose result declares the delay d, the due
\* lies between now + 0.95 d and now + 1.05 d, now being the clock at the
\* step; for d = 0 it is now.  (Both sides are multiplied by 100.)
C13_JitterWithinFivePercent ==
    (last.op = "step" /\ last.outcome = "ok") =>
        /\ 100 * last.at + 95 * last.delay <= 100 * due
        /\ 100 * due <= 100 * last.at + 105 * last.delay
        /\ last.delay = 0 => due = last.at

\* C13 witness: a successful step took the largest jitter of its delay.
C13_Witness ==
    /\ last.op = "step" /\ last.outcome = "ok"
    /\ last.delay > 0
    /\ 100 * due = 100 * last.at + 105 * last.delay


\* C15: after a successful step the Stage is the result's next stage when it
\* carries one and the initial Stage when it is None; whenever the Stage
\* changes, the new Stage is the initial Stage, the Stage read from task.json
\* by load(), or the next stage of the step just applied.
C15_StageFollowsResult ==
    /\ [](stage \in Stages)
    /\ []((last.op = "step" /\ last.outcome = "ok") =>
            /\ applied # NoStep
            /\ applied.stage # NoStage => stage = applied.stage
            /\ applied.stage = NoStage => stage = initial_stage)
    /\ [][stage' # stage =>
            \/ stage' = initial_stage
            \/ /\ last'.op = "load" /\ last'.outcome = "ok"
               /\ stage' = [INDEX |-> task_file.data["_index"],
                             data |-> FileFields(task_file.data)]
            \/ /\ last'.op = "step" /\ last'.outcome = "ok"
               /\ stage' = applied'.stage]_vars

\* C15 witness: a step ended the cycle and the Task is back at the initial Stage.
C15_Witness ==
    /\ last.op = "step" /\ last.outcome = "ok"
    /\ applied # NoStep
    /\ applied.stage = NoStage
    /\ stage = initial_stage
    /\ at_save.saved /\ at_save.stage # initial_stage

\* C16: when step() has returned after a successful step, task.json holds
\* the new Stage, its tag and the new due time.
C16_StepPersistsBeforeReturning ==
    (last.op = "step" /\ last.outcome = "ok") =>
        /\ task_file.exists
        /\ task_file.data["_index"] = stage.INDEX
        /\ FileFields(task_file.data) = stage.data
        /\ task_file.data["due"] = DueInstant

----------------------------------------------------------------------------
(* Claims about the Task and its Storage, checked under SpecStore *)

\* C14: a step() whose step function raises changes only the error counter
\* and due: the Stage and Storage (authors, publications, user_pub_ids, every
\* cit_paths) are as before the call, and the call returns to its caller.
C14_FailingStepWritesNothing ==
    [][fails' = fails + 1 =>
          /\ stage' = stage
          /\ storage' = storage
          /\ task_file' = task_file
          /\ phase' = phase
          /\ last'.outcome = "raised"
          /\ error' = error + 1]_vars

\* C14 witness: a step failed on a Task in a Stage other than the initial one
\* whose Storage holds an author, a publication of the user and cit_paths.
C14_Witness ==
    /\ last.op = "step" /\ last.outcome = "raised"
    /\ stage # initial_stage
    /\ storage.authors # {}
    /\ storage.user_pub_ids # {}
    /\ \E id \in DOMAIN storage.pubs : storage.pubs[id].cit_paths # {}


\* C17: a step() whose step function returns a value that is not a Step
\* raises TypeError to its caller: no ladder delay is applied, due and the
\* Stage keep their values and nothing is written to Storage.
C17_MalformedResultIsNotRetried ==
    /\ [](last.outcome = "TypeError" => (last.op = "step" /\ last.delay = 0))
    /\ [][last'.outcome = "TypeError" =>
            /\ due' = due
            /\ stage' = stage
            /\ storage' = storage
            /\ task_file' = task_file]_vars

\* C17 witness: the malformed result came to a Task that had a due set by an
\* earlier failure, a Stage other than the initial one and a filled Storage.
C17_Witness ==
    /\ last.op = "step" /\ last.outcome = "TypeError"
    /\ due > now
    /\ stage # initial_stage
    /\ storage.user_pub_ids # {}
    /\ \E id \in DOMAIN storage.pubs : storage.pubs[id].cit_paths # {}


\* the cit_paths of a publication as a set: empty when it is None or when the
\* publication is not stored
PathsOf(st, id) == IF id \in DOMAIN st.pubs THEN st.pubs[id].cit_paths ELSE {}

\* C18: after the apply phase of a successful step, user_pub_ids is the
\* previous set united with the ids of the result's self publications, and
\* the cit_paths of each cited publication are its previous paths united with
\* the unique paths of the new citing publications; applying the same result
\* once more changes neither user_pub_ids nor any cit_paths.
C18_ApplyIsIdempotentUnion ==
    [][(last'.op = "step" /\ last'.outcome = "ok" /\ applied' # NoStep) =>
          /\ storage'.user_pub_ids =
                storage.user_pub_ids \cup applied'.self_publications
          /\ \A i \in 1..Len(applied'.citations) :
                PathsOf(storage', applied'.citations[i][1]) =
                    PathsOf(storage, applied'.citations[i][1])
                    \cup {<<"pub", c>> : c \in applied'.citations[i][2]}
          /\ LET again == ApplyStep(storage', applied')
             IN  /\ again.user_pub_ids = storage'.user_pub_ids
                 /\ \A id \in DOMAIN again.pubs \cup DOMAIN storage'.pubs :
                       PathsOf(again, id) = PathsOf(storage', id)]_vars


\* C21: over any sequence of step() calls, successful, failing or malformed,
\* user_pub_ids and the cit_paths of every stored publication only grow: no
\* step removes an id or a citing path that an earlier step recorded.
C21_StoredSetsOnlyGrow ==
    [][last'.op = "step" =>
          /\ storage.user_pub_ids \subseteq storage'.user_pub_ids
          /\ \A id \in DOMAIN storage.pubs :
                PathsOf(storage, id) \subseteq PathsOf(storage', id)]_vars


=============================================================================
